---- MODULE Spec2Model ----
\* A model of src/agents.py (RedditInsight): the module-level credential check,
\* fetch_posts, generate_report, create_post and generate_comment_from_best.
\*
\* Conventions
\*   - A Python string is a sequence of one-character strings: "Ab" is <<"A","b">>.
\*   - A Python value that may be None is None (<<>>) or Some(v) (<<v>>).
\*   - A float is a pair [n, d] standing for n/d, d a power of ten.
\*   - The Reddit platform and the agent runtime are the environment: what they
\*     return (or that they raise) is chosen with \E in the action that calls them.
EXTENDS Integers, Sequences, FiniteSets

\* ------------------------------------------------------------------ bounds
MaxComments == 2     \* comments under one post on the platform
MaxPosts == 1        \* posts the platform serves during one fetch_posts call
MaxRows == 2         \* comments in the records handed to generate_report
MaxTemplates == 2    \* flair templates of a forum
MaxBest == 3         \* comments handed to generate_comment_from_best

\* ------------------------------------------------------------------ Python values
None == <<>>
Some(v) == <<v>>
IsNone(o) == o = None
Val(o) == o[1]

\* Sequences over S of length at most n.
SeqsUpTo(S, n) == UNION {[1..k -> S] : k \in 0..n}

\* str.lower(), on the letters the model uses.
LowerChar(c) ==
    CASE c = "A" -> "a"
      [] c = "B" -> "b"
      [] c = "N" -> "n"
      [] c = "W" -> "w"
      [] OTHER -> c

Lower(s) == [i \in DOMAIN s |-> LowerChar(s[i])]

\* `sub in s` for Python strings.
Contains(s, sub) ==
    \E i \in 0..(Len(s) - Len(sub)) :
        \A j \in 1..Len(sub) : s[i + j] = sub[j]

IsSpace(c) == c \in {" ", "\n", "\t"}

RECURSIVE LStrip(_)
LStrip(s) == IF s # <<>> /\ IsSpace(Head(s)) THEN LStrip(Tail(s)) ELSE s

RECURSIVE RStrip(_)
RStrip(s) ==
    IF s # <<>> /\ IsSpace(s[Len(s)]) THEN RStrip(SubSeq(s, 1, Len(s) - 1)) ELSE s

\* str.strip()
Strip(s) == RStrip(LStrip(s))

\* ------------------------------------------------------------------ state
VARIABLES
    pc,              \* where the running operation is
    env,             \* the six credentials read from the environment
    reddit,          \* TRUE once the praw session is constructed
    agents,          \* TRUE once the five agents are constructed
    subreddits, keywords, post_limit, comment_limit,   \* fetch_posts arguments / locals
    si,              \* index of the forum fetch_posts is working on
    top_posts,       \* posts still to iterate in the current forum's listing
    all_comments,    \* post.comments.list() of the post being processed
    raw_data,        \* fetch_posts' accumulator
    fetch_result,    \* what fetch_posts returned
    posts_data,      \* generate_report argument
    pi, ci,          \* generate_report loop position (post, comment)
    report,          \* generate_report accumulator
    outcomes,        \* per row: what the two agent calls did (history)
    flair_text, link_templates,   \* create_post argument, forum flair templates
    submissions,     \* calls made to subreddit_obj.submit
    post_result,     \* what create_post returned
    fetched_comments,   \* generate_comment_from_best argument
    agent_prompts,      \* prompts given to comment_agent
    comment_result      \* what generate_comment_from_best returned

startVars == <<env, reddit, agents>>
fetchVars == <<subreddits, keywords, post_limit, comment_limit, si, top_posts,
               all_comments, raw_data, fetch_result>>
reportVars == <<posts_data, pi, ci, report, outcomes>>
postVars == <<flair_text, link_templates, submissions, post_result>>
genVars == <<fetched_comments, agent_prompts, comment_result>>
vars == <<pc, startVars, fetchVars, reportVars, postVars, genVars>>

StartIdle == env = <<>> /\ reddit = FALSE /\ agents = FALSE
FetchIdle ==
    /\ subreddits = <<>> /\ keywords = None /\ post_limit = None
    /\ comment_limit = None /\ si = 0 /\ top_posts = <<>>
    /\ all_comments = <<>> /\ raw_data = <<>> /\ fetch_result = None
ReportIdle == posts_data = <<>> /\ pi = 0 /\ ci = 0 /\ report = <<>> /\ outcomes = <<>>
PostIdle ==
    flair_text = None /\ link_templates = <<>> /\ submissions = <<>> /\ post_result = None
GenIdle == fetched_comments = <<>> /\ agent_prompts = <<>> /\ comment_result = None

\* ------------------------------------------------------------------ startup
\* os.getenv gives None, or the string set in the environment (possibly empty).
CredNames == {"OPENAI_API_KEY", "REDDIT_CLIENT_ID", "REDDIT_CLIENT_SECRET",
              "REDDIT_USER_AGENT", "REDDIT_USERNAME", "REDDIT_PASSWORD"}
CredValues == {None, Some(<<>>), Some(<<"x">>)}

\* Python truthiness of an Optional[str].
Truthy(o) == ~IsNone(o) /\ Val(o) # <<>>

\* The module-level `all([...])`.
AllChecked(e) ==
    \A n \in {"REDDIT_CLIENT_ID", "REDDIT_CLIENT_SECRET", "REDDIT_USER_AGENT",
              "REDDIT_USERNAME", "REDDIT_PASSWORD"} : Truthy(e[n])

InitStartup ==
    /\ pc = "load"
    /\ env \in [CredNames -> CredValues]
    /\ reddit = FALSE /\ agents = FALSE
    /\ FetchIdle /\ ReportIdle /\ PostIdle /\ GenIdle

\* lines 18-19
CheckCredentials ==
    /\ pc = "load"
    /\ pc' = IF AllChecked(env) THEN "checked" ELSE "ValueError"
    /\ UNCHANGED <<startVars, fetchVars, reportVars, postVars, genVars>>

\* lines 22-28
InitPraw ==
    /\ pc = "checked"
    /\ reddit' = TRUE
    /\ pc' = "praw"
    /\ UNCHANGED <<env, agents, fetchVars, reportVars, postVars, genVars>>

\* lines 31-67: the agent constructors take no credential from this module.
InitAgents ==
    /\ pc = "praw"
    /\ agents' = TRUE
    /\ pc' = "ready"
    /\ UNCHANGED <<env, reddit, fetchVars, reportVars, postVars, genVars>>

NextStartup == CheckCredentials \/ InitPraw \/ InitAgents
SpecStartup == InitStartup /\ [][NextStartup]_vars

Missing(n) == ~Truthy(env[n])

\* C10: if any of the six credentials is missing the process raises at startup
\* and never reaches the state where the platform session and the agents are
\* initialised; it starts only when all six are present.
C10_FailFast ==
    /\ (pc \in {"checked", "praw", "ready"} => \A n \in CredNames : ~Missing(n))
    /\ ((reddit \/ agents) => \A n \in CredNames : ~Missing(n))
    /\ ((pc # "load" /\ \E n \in CredNames : Missing(n)) => pc = "ValueError")

C10_ReachedWithoutKey == pc = "ready" /\ Missing("OPENAI_API_KEY") /\ reddit /\ agents

\* ------------------------------------------------------------------ fetch_posts
Min(a, b) == IF a <= b THEN a ELSE b
Max(a, b) == IF a >= b THEN a ELSE b

DefaultPostLimit == 2
DefaultCommentLimit == 3

\* Python `x or d` for an Optional[int].
OrDefault(o, d) == IF IsNone(o) \/ Val(o) = 0 THEN d ELSE Val(o)

\* Python s[:n], n of either sign.
PySlice(s, n) ==
    IF n >= 0 THEN SubSeq(s, 1, Min(n, Len(s))) ELSE SubSeq(s, 1, Max(0, Len(s) + n))

Forums == {"f1", "f2"}
Bodies == {<<"A", "b">>, <<"b">>}
Scores == {0, 1}
PlatformComments == [body : Bodies, score : Scores]
CommentLists == SeqsUpTo(PlatformComments, MaxComments)

SubredditArgs == {<<>>, <<"f1">>, <<"f1", "f2">>}
KeywordArgs == {None, Some(<<>>), Some(<< <<"x">>, <<"a">> >>)}
PostLimitArgs == {None, Some(1)}
CommentLimitArgs == {None, Some(0), Some(1), Some(2)}

sHttp == <<"h", "t", "t", "p">>

\* The k-th top post of forum f, as the platform serves it.
PostHandle(f, k) ==
    [title |-> <<f, k>>, selftext |-> <<>>, permalink |-> <<"/", f, k>>, score |-> k,
     thumbnail |-> IF k = 1 THEN <<"s">> ELSE sHttp \o <<":">>]

\* line 121: `not keywords or any(kw.lower() in c.body.lower() for kw in keywords)`
\* Variant: the `if` clause of the comprehension dropped.
KeepAll(c, kws) == TRUE

KeepComment(c, kws) ==
    \/ IsNone(kws)
    \/ Val(kws) = <<>>
    \/ \E i \in DOMAIN Val(kws) : Contains(Lower(c.body), Lower(Val(kws)[i]))

\* lines 118-122
FilteredComments(cs, kws) ==
    LET Test(c) == KeepComment(c, kws)
        kept == SelectSeq(cs, Test)
    IN  [i \in DOMAIN kept |-> [Comment_Body |-> kept[i].body, Upvotes |-> kept[i].score]]

\* One step of a stable descending sort: x goes after every element that is
\* not smaller.
InsertDesc(sorted, x) ==
    LET k == Cardinality({i \in DOMAIN sorted : sorted[i].Upvotes >= x.Upvotes})
    IN  SubSeq(sorted, 1, k) \o <<x>> \o SubSeq(sorted, k + 1, Len(sorted))

\* Variant: the sort without reverse=True.
RECURSIVE SortAsc(_)
SortAsc(s) ==
    IF s = <<>> THEN <<>>
    ELSE LET rest == SortAsc(SubSeq(s, 1, Len(s) - 1))
             x == s[Len(s)]
             k == Cardinality({i \in DOMAIN rest : rest[i].Upvotes <= x.Upvotes})
         IN  SubSeq(rest, 1, k) \o <<x>> \o SubSeq(rest, k + 1, Len(rest))

\* line 124: sorted(filtered_comments, key=Upvotes, reverse=True), stable.
RECURSIVE SortedComments(_)
SortedComments(s) ==
    IF s = <<>> THEN <<>>
    ELSE InsertDesc(SortedComments(SubSeq(s, 1, Len(s) - 1)), s[Len(s)])

\* lines 110, 118-125
PostComments(cs, kws, climit) ==
    PySlice(SortedComments(FilteredComments(cs, kws)), OrDefault(climit, DefaultCommentLimit))

sCollectorFailed == <<"C", "o", "l", "l", "e", "c", "t", "o", "r", " ",
                      "a", "g", "e", "n", "t", " ", "f", "a", "i", "l", "e", "d">>
CollectorOutcomes == {None, Some(<<" ", "s", "\n">>)}

\* lines 129-150: None is a raising agent call.
CollectorText(out) == IF IsNone(out) THEN sCollectorFailed ELSE Strip(Val(out))

StartsWithHttp(s) == Len(s) >= 4 /\ SubSeq(s, 1, 4) = sHttp

\* lines 152-161
PostRecord(subreddit, post, collector_text, post_comments) ==
    [Subreddit |-> subreddit,
     Post_Title |-> post.title,
     Post_Body |-> post.selftext,
     Post_Link |-> <<"https://reddit.com">> \o post.permalink,
     Post_Upvotes |-> post.score,
     Post_Thumbnail |-> IF StartsWithHttp(post.thumbnail) THEN Some(post.thumbnail) ELSE None,
     Collector_Summary |-> collector_text,
     Comments |-> post_comments]

InitFetch ==
    /\ pc = "forum"
    /\ subreddits \in SubredditArgs
    /\ keywords \in KeywordArgs
    /\ post_limit \in PostLimitArgs
    /\ comment_limit \in CommentLimitArgs
    /\ si = 1 /\ top_posts = <<>> /\ all_comments = <<>>
    /\ raw_data = <<>> /\ fetch_result = None
    /\ StartIdle /\ ReportIdle /\ PostIdle /\ GenIdle

fetchArgs == <<subreddits, keywords, post_limit, comment_limit>>
others == <<startVars, reportVars, postVars, genVars>>

\* lines 112-113: the platform serves at most post_limit top posts.
ListTopPosts ==
    /\ pc = "forum" /\ si <= Len(subreddits)
    /\ \E n \in 0..Min(OrDefault(post_limit, DefaultPostLimit), MaxPosts - Len(raw_data)) :
          top_posts' = [k \in 1..n |-> PostHandle(subreddits[si], k)]
    /\ pc' = "post"
    /\ UNCHANGED <<fetchArgs, si, all_comments, raw_data, fetch_result, others>>

\* lines 113-114: the listing raises.
ListTopPostsRaises ==
    /\ pc = "forum" /\ si <= Len(subreddits)
    /\ pc' = "except"
    /\ UNCHANGED <<fetchVars, others>>

\* lines 114-162: one iteration of the post loop.
ProcessPost ==
    /\ pc = "post" /\ top_posts # <<>>
    /\ \E cs \in CommentLists, out \in CollectorOutcomes :
          /\ all_comments' = cs
          /\ raw_data' = Append(raw_data,
                PostRecord(subreddits[si], Head(top_posts), CollectorText(out),
                           PostComments(cs, keywords, comment_limit)))
    /\ top_posts' = Tail(top_posts)
    /\ UNCHANGED <<pc, fetchArgs, si, fetch_result, others>>

\* lines 115-116, 119, 127, 154-158: a platform read of the iteration raises.
\* Every such read comes before the append of line 152; the locals assigned
\* before the raise are not read again.
ProcessPostRaises ==
    /\ pc = "post" /\ top_posts # <<>>
    /\ pc' = "except"
    /\ UNCHANGED <<fetchArgs, si, top_posts, all_comments, raw_data, fetch_result, others>>

\* line 112: the listing is exhausted, on to the next forum.
NextForum ==
    /\ pc = "post" /\ top_posts = <<>>
    /\ si' = si + 1
    /\ pc' = "forum"
    /\ UNCHANGED <<fetchArgs, top_posts, all_comments, raw_data, fetch_result, others>>

\* lines 164-165
FetchReturn ==
    /\ pc = "forum" /\ si > Len(subreddits)
    /\ fetch_result' = Some(raw_data)
    /\ pc' = "returned"
    /\ UNCHANGED <<fetchArgs, si, top_posts, all_comments, raw_data, others>>

\* lines 166-169
FetchExcept ==
    /\ pc = "except"
    /\ fetch_result' = Some(<<>>)
    /\ pc' = "caught"
    /\ UNCHANGED <<fetchArgs, si, top_posts, all_comments, raw_data, others>>

NextFetch ==
    \/ ListTopPosts \/ ListTopPostsRaises \/ ProcessPost \/ ProcessPostRaises
    \/ NextForum \/ FetchReturn \/ FetchExcept
SpecFetch == InitFetch /\ [][NextFetch]_vars

\* C1: when a platform read raises after at least one Post Record was
\* accumulated, fetch_posts returns exactly the accumulated records, in order;
\* it returns the empty sequence only when nothing was accumulated.
C1_PartialResults ==
    pc = "caught" =>
        /\ Val(fetch_result) = raw_data
        /\ (Val(fetch_result) = <<>> => raw_data = <<>>)

\* ---- properties of fetch_posts
KeywordsGiven == ~IsNone(keywords) /\ Val(keywords) # <<>>

\* kw occurs in body when letter case is ignored.
CISubstring(body, kw) ==
    \E off \in 0..(Len(body) - Len(kw)) :
        \A j \in 1..Len(kw) : LowerChar(body[off + j]) = LowerChar(kw[j])

MatchesKeyword(body) == \E i \in DOMAIN Val(keywords) : CISubstring(body, Val(keywords)[i])

\* Every record accumulated or returned so far.
FetchedRecords ==
    {raw_data[i] : i \in DOMAIN raw_data}
        \cup (IF IsNone(fetch_result) THEN {}
              ELSE {Val(fetch_result)[i] : i \in DOMAIN Val(fetch_result)})

\* The record built from the listing all_comments holds.
LastRecord == raw_data[Len(raw_data)]

\* The platform comments a record may draw from.
Passing(c) == ~KeywordsGiven \/ MatchesKeyword(c.body)
CountIn(cs, b, u) == Cardinality({i \in DOMAIN cs : cs[i].Comment_Body = b /\ cs[i].Upvotes = u})
CountPassing(b, u) ==
    Cardinality({i \in DOMAIN all_comments :
        all_comments[i].body = b /\ all_comments[i].score = u /\ Passing(all_comments[i])})
CountPassingScore(u) ==
    Cardinality({i \in DOMAIN all_comments :
        all_comments[i].score = u /\ Passing(all_comments[i])})
CountScore(cs, u) == Cardinality({i \in DOMAIN cs : cs[i].Upvotes = u})

\* The limit in force: 3 when the caller passes none (or 0, which `or` takes as none).
LimitInForce == IF IsNone(comment_limit) \/ Val(comment_limit) = 0 THEN 3 ELSE Val(comment_limit)
SliceLen(n, l) == IF l >= 0 THEN Min(n, l) ELSE Max(0, n + l)

NonIncreasing(cs) == \A i \in 1..(Len(cs) - 1) : cs[i].Upvotes >= cs[i + 1].Upvotes

\* The record's comments are comments of the listing that pass the filter, and
\* no passing comment left out has more upvotes than one kept.
HighestUpvoted(cs) ==
    /\ \A b \in Bodies, u \in Scores : CountIn(cs, b, u) <= CountPassing(b, u)
    /\ \A u \in Scores :
          (\E i \in DOMAIN cs : cs[i].Upvotes < u) => CountScore(cs, u) = CountPassingScore(u)

\* C6: with a non-empty keyword list every comment of every record contains a
\* keyword as a case-insensitive substring; with no keywords (absent or empty)
\* filtering excludes nothing, so the record holds as many comments as the
\* listing and the limit allow, all of them comments of the listing.
C6_KeywordFilter ==
    /\ KeywordsGiven =>
          \A rec \in FetchedRecords : \A i \in DOMAIN rec.Comments :
              MatchesKeyword(rec.Comments[i].Comment_Body)
    /\ (~KeywordsGiven /\ raw_data # <<>>) =>
          /\ Len(LastRecord.Comments) = SliceLen(Len(all_comments), LimitInForce)
          /\ \A b \in Bodies, u \in Scores :
                CountIn(LastRecord.Comments, b, u) <= CountPassing(b, u)

C6_Witness ==
    /\ pc = "returned" /\ KeywordsGiven /\ IsNone(comment_limit)
    /\ Len(Val(fetch_result)) = 1
    /\ Len(all_comments) = 2 /\ Len(Val(fetch_result)[1].Comments) = 1
    /\ Val(fetch_result)[1].Comments[1].Comment_Body = <<"A", "b">>

Digits == <<"0", "1", "2", "3", "4", "5", "6", "7", "8", "9">>
IsDigit(c) == \E k \in DOMAIN Digits : Digits[k] = c
DigitVal(c) == (CHOOSE k \in DOMAIN Digits : Digits[k] = c) - 1

RECURSIVE NumVal(_)
NumVal(ds) == IF ds = <<>> THEN 0 ELSE 10 * NumVal(SubSeq(ds, 1, Len(ds) - 1)) + DigitVal(ds[Len(ds)])

RECURSIVE Pow10(_)
Pow10(k) == IF k = 0 THEN 1 ELSE 10 * Pow10(k - 1)

\* Equal numbers get equal pairs: trailing zeros of the fraction are dropped.
RECURSIVE Normalize(_)
Normalize(q) ==
    IF q.d > 1 /\ q.n % 10 = 0 THEN Normalize([n |-> q.n \div 10, d |-> q.d \div 10]) ELSE q

Zero == [n |-> 0, d |-> 1]

\* float(text) on decimal literals: optional sign, digits, at most one point,
\* at least one digit, surrounding whitespace ignored. None is ValueError.
ParseFloat(text) ==
    LET t == Strip(text)
        signed == t # <<>> /\ Head(t) \in {"+", "-"}
        body == IF signed THEN Tail(t) ELSE t
        points == {i \in DOMAIN body : body[i] = "."}
        p == IF points = {} THEN Len(body) + 1 ELSE CHOOSE i \in points : TRUE
        int == SubSeq(body, 1, p - 1)
        frac == SubSeq(body, p + 1, Len(body))
        wellFormed ==
            /\ Cardinality(points) <= 1
            /\ Len(int) + Len(frac) >= 1
            /\ \A i \in DOMAIN body : i \in points \/ IsDigit(body[i])
        mag == NumVal(int) * Pow10(Len(frac)) + NumVal(frac)
    IN  IF ~wellFormed THEN None
        ELSE Some(Normalize([n |-> IF signed /\ Head(t) = "-" THEN 0 - mag ELSE mag,
                             d |-> Pow10(Len(frac))]))

sTrue == <<"T", "r", "u", "e">>
sFalse == <<"F", "a", "l", "s", "e">>
sUnverified == <<"U", "n", "v", "e", "r", "i", "f", "i", "e", "d">>
sMaybe == <<"M", "a", "y", "b", "e">>

\* What an agent call does: None when it raises, Some(result.raw) otherwise.
SentimentOutcomes ==
    {None, Some(<<" ", "0", ".", "5", "\n">>), Some(<<"5">>), Some(<<"-", "3", ".", "2">>),
     Some(<<"a", "b", "c">>)}
FactOutcomes == {None, Some(sTrue \o <<"\n">>), Some(sMaybe)}

\* lines 177, 180-191: 0.0 unless the call returns and its text parses.
SentimentScore(sOut) ==
    IF IsNone(sOut) \/ IsNone(ParseFloat(Strip(Val(sOut)))) THEN Zero
    ELSE Val(ParseFloat(Strip(Val(sOut))))

\* lines 178, 193-204: "Unverified" unless the call returns.
FactVerdict(fOut) == IF IsNone(fOut) THEN sUnverified ELSE Strip(Val(fOut))

\* Variant: "Comment Upvotes" read from the post instead of the comment.
ReportRowPostUpvotes(post, comment, sentiment_score, verdict) ==
    [Subreddit |-> post.Subreddit,
     Post_Title |-> post.Post_Title,
     Post_Link |-> post.Post_Link,
     Post_Upvotes |-> post.Post_Upvotes,
     Collector_Summary |-> post.Collector_Summary,
     Comment |-> comment.Comment_Body,
     Comment_Upvotes |-> post.Post_Upvotes,
     Sentiment |-> sentiment_score,
     Fact_Verdict |-> verdict]

\* lines 206-216
ReportRow(post, comment, sentiment_score, verdict) ==
    [Subreddit |-> post.Subreddit,
     Post_Title |-> post.Post_Title,
     Post_Link |-> post.Post_Link,
     Post_Upvotes |-> post.Post_Upvotes,
     Collector_Summary |-> post.Collector_Summary,
     Comment |-> comment.Comment_Body,
     Comment_Upvotes |-> comment.Upvotes,
     Sentiment |-> sentiment_score,
     Fact_Verdict |-> verdict]

\* Variant: the fact check placed inside the sentiment try block.
ProcessCommentOneTry(post, comment, sOut, fOut) ==
    IF IsNone(sOut) \/ IsNone(ParseFloat(Strip(Val(sOut))))
    THEN ReportRow(post, comment, Zero, sUnverified)
    ELSE ReportRow(post, comment, SentimentScore(sOut), FactVerdict(fOut))

\* lines 176-216: the body of the comment loop, two try blocks in a row.
ProcessComment(post, comment, sOut, fOut) ==
    ReportRow(post, comment, SentimentScore(sOut), FactVerdict(fOut))

ReportComments ==
    {[Comment_Body |-> <<"A", "b">>, Upvotes |-> 1], [Comment_Body |-> <<"b">>, Upvotes |-> 0]}
ReportCommentLists == SeqsUpTo(ReportComments, MaxRows)
ReportPosts ==
    {PostRecord(f, PostHandle(f, IF f = "f1" THEN 1 ELSE 2), <<f>>, cs) :
        f \in Forums, cs \in ReportCommentLists}

RECURSIVE CommentCount(_)
CommentCount(posts) ==
    IF posts = <<>> THEN 0 ELSE Len(Head(posts).Comments) + CommentCount(Tail(posts))

InitReport ==
    /\ pc = "report"
    /\ posts_data \in {ps \in SeqsUpTo(ReportPosts, 2) : CommentCount(ps) <= MaxRows}
    /\ pi = 1 /\ ci = 1 /\ report = <<>> /\ outcomes = <<>>
    /\ StartIdle /\ FetchIdle /\ PostIdle /\ GenIdle

reportOthers == <<startVars, fetchVars, postVars, genVars>>

\* lines 175-216: one iteration of the comment loop.
AnalyzeComment ==
    /\ pc = "report" /\ pi <= Len(posts_data) /\ ci <= Len(posts_data[pi].Comments)
    /\ \E sOut \in SentimentOutcomes, fOut \in FactOutcomes :
          /\ report' = Append(report,
                ProcessComment(posts_data[pi], posts_data[pi].Comments[ci], sOut, fOut))
          /\ outcomes' = Append(outcomes, [sent |-> sOut, fact |-> fOut])
    /\ ci' = ci + 1
    /\ UNCHANGED <<pc, posts_data, pi, reportOthers>>

\* line 174: the post's comments are exhausted.
NextPost ==
    /\ pc = "report" /\ pi <= Len(posts_data) /\ ci > Len(posts_data[pi].Comments)
    /\ pi' = pi + 1 /\ ci' = 1
    /\ UNCHANGED <<pc, posts_data, report, outcomes, reportOthers>>

\* line 217
ReportReturn ==
    /\ pc = "report" /\ pi > Len(posts_data)
    /\ pc' = "reported"
    /\ UNCHANGED <<reportVars, reportOthers>>

NextReport == AnalyzeComment \/ NextPost \/ ReportReturn
SpecReport == InitReport /\ [][NextReport]_vars

\* ---- properties of generate_report
InRange(q) == 0 - q.d <= q.n /\ q.n <= q.d

\* What each agent text of the model stands for.
ExpectedScore(text) ==
    CASE text = <<" ", "0", ".", "5", "\n">> -> Some([n |-> 5, d |-> 10])
      [] text = <<"5">> -> Some([n |-> 5, d |-> 1])
      [] text = <<"-", "3", ".", "2">> -> Some([n |-> 0 - 32, d |-> 10])
      [] OTHER -> None
ExpectedVerdict(text) == IF text = sTrue \o <<"\n">> THEN sTrue ELSE text

SentimentFailed(o) == IsNone(o.sent) \/ IsNone(ExpectedScore(Val(o.sent)))

\* C2: every row's Sentiment lies in [-1.0, 1.0] whatever the sentiment agent
\* returns, and is exactly 0.0 when the call or the parse fails.
C2_SentimentInRange ==
    \A k \in DOMAIN report :
        /\ InRange(report[k].Sentiment)
        /\ SentimentFailed(outcomes[k]) => report[k].Sentiment = Zero

\* C3: every row's Fact Verdict is "True", "False" or "Unverified" whatever the
\* fact-check agent returns, and is "Unverified" when the call fails.
C3_VerdictEnum ==
    \A k \in DOMAIN report :
        /\ report[k].Fact_Verdict \in {sTrue, sFalse, sUnverified}
        /\ IsNone(outcomes[k].fact) => report[k].Fact_Verdict = sUnverified

\* The (post, comment) positions of posts_data in post order, then comment order.
RECURSIVE Positions(_)
Positions(p) ==
    IF p > Len(posts_data) THEN <<>>
    ELSE [c \in 1..Len(posts_data[p].Comments) |-> <<p, c>>] \o Positions(p + 1)

\* C4: one row per comment, none dropped or duplicated; the k-th row carries
\* the k-th comment in post order then comment order, with the fields of that
\* comment's own parent record, whatever the agents do.
C4_OneRowPerComment ==
    LET pos == Positions(1) IN
    /\ Len(report) <= Len(pos)
    /\ pc = "reported" => Len(report) = CommentCount(posts_data)
    /\ \A k \in DOMAIN report :
          LET post == posts_data[pos[k][1]]
              comment == post.Comments[pos[k][2]]
          IN  /\ report[k].Comment = comment.Comment_Body
              /\ report[k].Comment_Upvotes = comment.Upvotes
              /\ report[k].Subreddit = post.Subreddit
              /\ report[k].Post_Title = post.Post_Title
              /\ report[k].Post_Link = post.Post_Link
              /\ report[k].Post_Upvotes = post.Post_Upvotes
              /\ report[k].Collector_Summary = post.Collector_Summary

C4_Witness ==
    /\ pc = "reported" /\ Len(posts_data) = 2 /\ Len(report) = 2
    /\ report[1].Subreddit # report[2].Subreddit
    /\ report[1].Comment # report[2].Comment
    /\ IsNone(outcomes[1].sent) /\ IsNone(outcomes[2].fact)

\* C5: the two agent calls of a comment are independent. A failed sentiment
\* call or parse gives Sentiment 0.0 and the fact check still runs, its result
\* stored as the verdict; a failed fact check leaves the computed score in
\* place; neither failure stops the comments after it.
C5_IndependentCalls ==
    /\ \A k \in DOMAIN report :
          /\ SentimentFailed(outcomes[k]) =>
                /\ report[k].Sentiment = Zero
                /\ ~IsNone(outcomes[k].fact) =>
                      report[k].Fact_Verdict = ExpectedVerdict(Val(outcomes[k].fact))
          /\ (IsNone(outcomes[k].fact) /\ ~SentimentFailed(outcomes[k])) =>
                report[k].Sentiment = Val(ExpectedScore(Val(outcomes[k].sent)))
    /\ Len(outcomes) = Len(report)
    /\ pc = "reported" => Len(report) = CommentCount(posts_data)

C5_Witness ==
    /\ pc = "reported" /\ Len(report) = 2
    /\ IsNone(outcomes[1].sent) /\ outcomes[1].fact = Some(sTrue \o <<"\n">>)
    /\ report[1].Sentiment = Zero /\ report[1].Fact_Verdict = sTrue
    /\ IsNone(outcomes[2].fact) /\ outcomes[2].sent = Some(<<"-", "3", ".", "2">>)

\* ------------------------------------------------------------------ create_post
FlairArgs == {None, Some(<<>>), Some(<<"N", "w">>), Some(<<"x">>)}
TemplateTexts == {<<>>, <<"n", "W">>, <<"N", "w">>}

\* subreddit_obj.flair.link_templates: the i-th template has id i.
TemplateLists ==
    {[i \in DOMAIN ts |-> [id |-> i, text |-> ts[i]]] : ts \in SeqsUpTo(TemplateTexts, MaxTemplates)}

\* The handle subreddit_obj.submit returns.
sSubmission == <<"submission">>

\* Variant: the comparison without .lower().
RECURSIVE ResolveFlairCaseSensitive(_, _)
ResolveFlairCaseSensitive(templates, text) ==
    IF templates = <<>> THEN None
    ELSE IF Head(templates).text = text THEN Some(Head(templates).id)
    ELSE ResolveFlairCaseSensitive(Tail(templates), text)

\* lines 225-229: the id of the first template whose text equals flair_text
\* when both are lowered, else None.
RECURSIVE ResolveFlair(_, _)
ResolveFlair(templates, text) ==
    IF templates = <<>> THEN None
    ELSE IF Lower(Head(templates).text) = Lower(text) THEN Some(Head(templates).id)
    ELSE ResolveFlair(Tail(templates), text)

\* lines 224-232: the flair_id the post is submitted with (None also when
\* submit is called without the argument).
SubmittedFlair(text, templates) ==
    IF Truthy(text) THEN ResolveFlair(templates, Val(text)) ELSE None

InitPost ==
    /\ pc = "create"
    /\ flair_text \in FlairArgs
    /\ link_templates \in TemplateLists
    /\ submissions = <<>> /\ post_result = None
    /\ StartIdle /\ FetchIdle /\ ReportIdle /\ GenIdle

postOthers == <<startVars, fetchVars, reportVars, genVars>>

\* lines 221-235, nothing raises.
CreatePost ==
    /\ pc = "create"
    /\ submissions' = Append(submissions, [flair_id |-> SubmittedFlair(flair_text, link_templates)])
    /\ post_result' = Some(sSubmission)
    /\ pc' = "posted"
    /\ UNCHANGED <<flair_text, link_templates, postOthers>>

\* lines 222-232 raise (forum lookup, flair listing, submit), then 236-238.
CreatePostRaises ==
    /\ pc = "create"
    /\ post_result' = None
    /\ pc' = "post_failed"
    /\ UNCHANGED <<flair_text, link_templates, submissions, postOthers>>

\* line 234 raises reading submission.permalink after the submit, then 236-238.
CreatePostRaisesAfterSubmit ==
    /\ pc = "create"
    /\ submissions' = Append(submissions, [flair_id |-> SubmittedFlair(flair_text, link_templates)])
    /\ post_result' = None
    /\ pc' = "post_failed"
    /\ UNCHANGED <<flair_text, link_templates, postOthers>>

NextPostOp == CreatePost \/ CreatePostRaises \/ CreatePostRaisesAfterSubmit
SpecPost == InitPost /\ [][NextPostOp]_vars

\* ---- properties of create_post
CIEqual(a, b) == Len(a) = Len(b) /\ \A i \in DOMAIN a : LowerChar(a[i]) = LowerChar(b[i])
TemplateMatches(i) == CIEqual(link_templates[i].text, Val(flair_text))
FirstMatch(i) == TemplateMatches(i) /\ \A j \in 1..(i - 1) : ~TemplateMatches(j)

FlairOutcome ==
    /\ (\A i \in DOMAIN link_templates : ~TemplateMatches(i)) =>
          /\ Len(submissions) = 1 /\ IsNone(submissions[1].flair_id)
          /\ post_result = Some(sSubmission)
    /\ \A i \in DOMAIN link_templates :
          FirstMatch(i) =>
              /\ Len(submissions) = 1
              /\ submissions[1].flair_id = Some(link_templates[i].id)

\* C8 as stated: with any flair_text given, an unmatched one still submits
\* once, without a flair id, and returns the handle; a matched one submits with
\* the id of the first matching template; a platform failure returns None.
C8_AnyFlairText ==
    /\ (pc = "posted" /\ ~IsNone(flair_text)) => FlairOutcome
    /\ pc = "post_failed" => IsNone(post_result)

\* C8 amended: the same for a non-empty flair_text.
C8_NonEmptyFlairText ==
    /\ (pc = "posted" /\ ~IsNone(flair_text) /\ Val(flair_text) # <<>>) => FlairOutcome
    /\ pc = "post_failed" => IsNone(post_result)
    /\ Len(submissions) <= 1

C8_WitnessMatched ==
    /\ pc = "posted" /\ flair_text = Some(<<"N", "w">>)
    /\ Len(link_templates) = 2
    /\ link_templates[1].text = <<"n", "W">> /\ link_templates[2].text = <<"N", "w">>
    /\ submissions = <<[flair_id |-> Some(1)]>>

C8_Witness ==
    /\ pc = "posted" /\ flair_text = Some(<<"x">>) /\ Len(link_templates) = 2
    /\ submissions = <<[flair_id |-> None]>> /\ post_result = Some(sSubmission)

\* ------------------------------------------------------------------ generate_comment_from_best
GenComments ==
    {[Comment_Body |-> <<"A", "b">>, Upvotes |-> 1], [Comment_Body |-> <<"b">>, Upvotes |-> 1],
     [Comment_Body |-> <<"b">>, Upvotes |-> 5], [Comment_Body |-> <<"x">>]}
GenOutcomes == {None, Some(<<" ", "o", "k", "\n">>)}

\* c.get('Upvotes', 0)
UpvotesOf(c) == IF "Upvotes" \in DOMAIN c THEN c.Upvotes ELSE 0

\* Variant: a maximum that keeps the last maximal element.
RECURSIVE BestCommentLast(_)
BestCommentLast(comments) ==
    IF Len(comments) = 1 THEN comments[1]
    ELSE LET best == BestCommentLast(SubSeq(comments, 1, Len(comments) - 1))
             c == comments[Len(comments)]
         IN  IF UpvotesOf(c) >= UpvotesOf(best) THEN c ELSE best

\* line 89: max(fetched_comments, key=Upvotes) keeps the first maximal element.
RECURSIVE BestComment(_)
BestComment(comments) ==
    IF Len(comments) = 1 THEN comments[1]
    ELSE LET best == BestComment(SubSeq(comments, 1, Len(comments) - 1))
             c == comments[Len(comments)]
         IN  IF UpvotesOf(c) > UpvotesOf(best) THEN c ELSE best

\* line 90
CommentPrompt(body) ==
    <<"Original Comment: ">> \o body \o <<"\nGenerate a new comment in a similar style.">>

InitGen ==
    /\ pc = "gen"
    /\ fetched_comments \in SeqsUpTo(GenComments, MaxBest)
    /\ agent_prompts = <<>> /\ comment_result = None
    /\ StartIdle /\ FetchIdle /\ ReportIdle /\ PostIdle

genOthers == <<startVars, fetchVars, reportVars, postVars>>

\* lines 86-87
GenerateNothing ==
    /\ pc = "gen" /\ fetched_comments = <<>>
    /\ comment_result' = None
    /\ pc' = "gen_empty"
    /\ UNCHANGED <<fetched_comments, agent_prompts, genOthers>>

\* lines 89-100: the agent returns.
GenerateComment ==
    /\ pc = "gen" /\ fetched_comments # <<>>
    /\ \E out \in GenOutcomes \ {None} :
          comment_result' = Some(Strip(Val(out)))
    /\ agent_prompts' = Append(agent_prompts, CommentPrompt(BestComment(fetched_comments).Comment_Body))
    /\ pc' = "generated"
    /\ UNCHANGED <<fetched_comments, genOthers>>

\* lines 89-99, 101-103: the agent call raises.
GenerateCommentRaises ==
    /\ pc = "gen" /\ fetched_comments # <<>>
    /\ agent_prompts' = Append(agent_prompts, CommentPrompt(BestComment(fetched_comments).Comment_Body))
    /\ comment_result' = None
    /\ pc' = "gen_failed"
    /\ UNCHANGED <<fetched_comments, genOthers>>

NextGen == GenerateNothing \/ GenerateComment \/ GenerateCommentRaises
SpecGen == InitGen /\ [][NextGen]_vars

\* ---- properties of generate_comment_from_best
UpvotesAt(i) == IF "Upvotes" \in DOMAIN fetched_comments[i] THEN fetched_comments[i].Upvotes ELSE 0
EarliestMax(i) ==
    /\ \A j \in DOMAIN fetched_comments : UpvotesAt(j) <= UpvotesAt(i)
    /\ \A j \in 1..(i - 1) : UpvotesAt(j) < UpvotesAt(i)

\* C9: an empty input gives None without an agent call; a non-empty one calls
\* the agent exactly once, with the prompt built from the body of the earliest
\* comment of maximal upvotes; a failing call gives None.
C9_BestComment ==
    /\ fetched_comments = <<>> => (agent_prompts = <<>> /\ IsNone(comment_result))
    /\ (fetched_comments # <<>> /\ pc # "gen") =>
          /\ Len(agent_prompts) = 1
          /\ \A i \in DOMAIN fetched_comments :
                EarliestMax(i) =>
                    agent_prompts[1] = <<"Original Comment: ">> \o fetched_comments[i].Comment_Body
                                        \o <<"\nGenerate a new comment in a similar style.">>
    /\ pc = "gen_failed" => IsNone(comment_result)
    /\ pc = "generated" => ~IsNone(comment_result)

C9_Witness ==
    /\ pc = "generated" /\ Len(fetched_comments) = 3
    /\ UpvotesAt(1) < UpvotesAt(2) /\ UpvotesAt(2) = UpvotesAt(3)
    /\ fetched_comments[2].Comment_Body # fetched_comments[3].Comment_Body
    /\ agent_prompts = <<CommentPrompt(fetched_comments[2].Comment_Body)>>

\* ------------------------------------------------------------------ the program
\* A behaviour is the module load or one call of one function.
Init == InitStartup \/ InitFetch \/ InitReport \/ InitPost \/ InitGen
Next == NextStartup \/ NextFetch \/ NextReport \/ NextPostOp \/ NextGen
Spec == Init /\ [][Next]_vars

====
